---- MODULE Spec2Model ----
(***************************************************************************)
(* Lobby lifecycle, draft, purge, scoring and rating update of the        *)
(* counterpush backend (src/server.js, src/unnamed/part_004 lines          *)
(* 735-2616, src/unnamed/part_003).                                        *)
(*                                                                         *)
(* One step of the model is one run of the event loop between two real     *)
(* await points or timer expiries: the synchronous prefix of a handler,    *)
(* the continuation of a handler after an await on Discord or HTTP I/O,    *)
(* or a setTimeout callback.  Whether an await really suspends (the        *)
(* Discord client is ready, a Minecraft account is linked) is decided by   *)
(* the environment and is a BOOLEAN input of the step.                     *)
(*                                                                         *)
(* Not modelled: voice-channel ids, lifetime kill/death statistics,        *)
(* broadcasts.  lobby.players is used by the code only through find,       *)
(* filter, push and length and never holds an id twice, so it is a set;    *)
(* teams and captains are sequences, as in the code.  A player record      *)
(* that does not exist yet is the record getOrCreatePlayer would create.   *)
(*                                                                         *)
(* Two fields of a lobby are history and not program state: applied counts *)
(* the rating updates and draw records made since the phase last became    *)
(* playing, done says that finishMatch has run since the lobby was         *)
(* created or last reset, and starts and resets count the accepted         *)
(* startCaptainSelect and resetLobby commands, which are explored up to    *)
(* MaxStarts and MaxResets.  createLobby of server.js is explored for       *)
(* MaxLobbies lobbies per code of the registry in a behaviour.             *)
(***************************************************************************)
EXTENDS Integers, Sequences, FiniteSets, Bags, TLC

\* ------------------------------------------------------------- bounds
NumPlayers == 5
MaxObjs == 2
MaxLobbies == 1
MaxTimers == 1
MaxGames == 1
MaxStarts == 2
MaxResets == 1
MaxRemoves == 1

\* --------------------------------------------------- program constants
STARTING_ELO == 500
BASE_ELO == 50
WIN_SCORE == 2
MIN_PLAYERS == 4
MATCH_LIMIT == 1000

Players == 1..NumPlayers
DraftPlayers == 1..MIN_PLAYERS
Oids == 1..MaxObjs
Codes == {"AB"}
CodeArgs == {"AB", "ab"}
MaxPlayersArgs == {4}
Creators == {1}
Issuers == {1, 2}
TeamNames == {"team1", "team2"}
TeamArgs == {"team1", "team2", "other"}

toUpperCase(c) == IF c = "ab" THEN "AB" ELSE c

\* the codes of a registry that holds two lobbies at a time, in the order in
\* which createLobby takes them
CodeOrder == <<"AB", "EF">>
Rank(c) == CHOOSE i \in 1..Len(CodeOrder) : CodeOrder[i] = c

OtherTeam(t) == IF t = "team1" THEN "team2" ELSE "team1"

Range(s) == {s[i] : i \in 1..Len(s)}

Min2(a, b) == IF a < b THEN a ELSE b

Max2(a, b) == IF a > b THEN a ELSE b

Min3(a, b, c) == Min2(a, Min2(b, c))

\* s without every occurrence of x (Array.prototype.filter(p => p !== x))
RECURSIVE Without(_, _)
Without(s, x) ==
  IF s = <<>> THEN <<>>
  ELSE IF Head(s) = x THEN Without(Tail(s), x)
       ELSE <<Head(s)>> \o Without(Tail(s), x)

\* s without its first occurrence of x (findIndex + splice(i, 1))
RECURSIVE SpliceFirst(_, _)
SpliceFirst(s, x) ==
  IF s = <<>> THEN <<>>
  ELSE IF Head(s) = x THEN Tail(s)
       ELSE <<Head(s)>> \o SpliceFirst(Tail(s), x)

VARIABLES lobbies, heap, sessions, db, matches, purgeImmunity, dailyImmunity, tasks, reply

vars == <<lobbies, heap, sessions, db, matches, purgeImmunity, dailyImmunity, tasks, reply>>

\* ------------------------------------------------------------ records
NewPlayer == [elo |-> STARTING_ELO, wins |-> 0, losses |-> 0, gamesPlayed |-> 0]

NoPurgeData == [present |-> FALSE, eliminated |-> {}]

NewLobby(code, hostId, maxPlayers) ==
  [ id |-> code, host |-> hostId, players |-> {hostId}, maxPlayers |-> maxPlayers,
    phase |-> "waiting", captains |-> <<>>,
    teams |-> [team1 |-> <<>>, team2 |-> <<>>],
    currentTurn |-> "null", picksLeft |-> 0,
    score |-> [team1 |-> 0, team2 |-> 0],
    purgeData |-> NoPurgeData, eloResults |-> 0, isDraw |-> FALSE,
    applied |-> 0, done |-> FALSE, starts |-> 0, resets |-> 0, removes |-> 0 ]

\* an object id that is not yet in use, and one whose lobby is unreachable
FreeObj == [NewLobby("", 0, 0) EXCEPT !.phase = "none", !.players = {}]

GoneObj == [FreeObj EXCEPT !.phase = "gone"]

Task(kind, o, code, winners, losers, team) ==
  [kind |-> kind, o |-> o, code |-> code, winners |-> winners, losers |-> losers, team |-> team]

Timer(kind, o) == Task(kind, o, "", <<>>, <<>>, "")

\* An object is kept while the registry or a pending callback refers to it.
Collect(H, L, T) ==
  [o \in Oids |->
     IF (\E c \in DOMAIN L : L[c] = o) \/ (\E t \in BagToSet(T) : t.o = o) THEN H[o]
     ELSE IF H[o].phase = "none" THEN FreeObj ELSE GoneObj]

\* lobbies.get(code?.toUpperCase()) || null, as an object id (0: null)
getLobby(code) == lobbies[toUpperCase(code)]

\* ------------------------------------------------------ sessions (db)
setUserSession(S, u, code) == [S EXCEPT ![u] = code]

clearUserSession(S, u) == [S EXCEPT ![u] = "none"]

clearLobbySession(S, code) == [u \in Players |-> IF S[u] = code THEN "none" ELSE S[u]]

\* ------------------------------------------------------- rating (db)
EloOr(p) == IF p.elo = 0 THEN STARTING_ELO ELSE p.elo

RECURSIVE TeamTotal(_, _)
TeamTotal(d, ids) ==
  IF ids = <<>> THEN 0 ELSE EloOr(d[Head(ids)]) + TeamTotal(d, Tail(ids))

\* 10^4 * 400 * log10(1/E - 1) for E = 3 * (50.5 - k) / 100, k = 18..50: the
\* rating gap (loser average minus winner average) from which Math.round gives
\* at least k.  No gap with a denominator up to 16 is within 10^-4 of a step,
\* so the comparison below is the one the floating-point code makes.
EloStep ==
  [k \in 18..50 |->
     << -6364258, -4940276, -4128009, -3544982, -3082392, -2693664,
        -2354453, -2050374, -1772166, -1513468, -1269682, -1037325,
        -813658, -596431, -383732, -173863, 34745, 243603,
        454237, 668248, 887395, 1113689, 1349520, 1597845,
        1862464, 2148477, 2463045, 2816810, 3226729, 3722535,
        4364322, 5307163, 7269380 >>[k - 17]]

\* Math.round(BASE_ELO * (1 - expectedWinner + 0.5) / 1.5) on the averages
\* wSum/wLen and lSum/lLen
rawEloChange(wSum, wLen, lSum, lLen) ==
  17 + Cardinality({k \in 18..50 :
         (lSum * wLen - wSum * lLen) * 10000 >= EloStep[k] * wLen * lLen})

\* calculateEloChange without its clamp, against which the band is tested
unclampedEloChange(wSum, wLen, lSum, lLen) == rawEloChange(wSum, wLen, lSum, lLen)

\* calculateEloChange: the rounded value clamped between 20 and 30
calculateEloChange(wSum, wLen, lSum, lLen) ==
  Max2(20, Min2(30, rawEloChange(wSum, wLen, lSum, lLen)))

\* processMatchResult: every update is computed from the records read at entry;
\* the winners are written first, then the losers.
processMatchResult(d, winnerIds, loserIds) ==
  LET wLen == IF winnerIds = <<>> THEN 1 ELSE Len(winnerIds)
      lLen == IF loserIds = <<>> THEN 1 ELSE Len(loserIds)
      wSum == IF winnerIds = <<>> THEN STARTING_ELO ELSE TeamTotal(d, winnerIds)
      lSum == IF loserIds = <<>> THEN STARTING_ELO ELSE TeamTotal(d, loserIds)
      eloChange == calculateEloChange(wSum, wLen, lSum, lLen)
      eloLoss == BASE_ELO - eloChange
      W == Range(winnerIds)
      L == Range(loserIds)
  IN [p \in Players |->
        [ elo |-> IF p \in L THEN Max2(0, d[p].elo - eloLoss)
                  ELSE IF p \in W THEN d[p].elo + eloChange ELSE d[p].elo,
          wins |-> IF p \in W THEN d[p].wins + 1 ELSE d[p].wins,
          losses |-> IF p \in L THEN d[p].losses + 1 ELSE d[p].losses,
          gamesPlayed |-> IF p \in W \cup L THEN d[p].gamesPlayed + 1
                          ELSE d[p].gamesPlayed ]]

eloGainOf(d, winnerIds, loserIds) ==
  calculateEloChange(IF winnerIds = <<>> THEN STARTING_ELO ELSE TeamTotal(d, winnerIds),
                     IF winnerIds = <<>> THEN 1 ELSE Len(winnerIds),
                     IF loserIds = <<>> THEN STARTING_ELO ELSE TeamTotal(d, loserIds),
                     IF loserIds = <<>> THEN 1 ELSE Len(loserIds))

\* processMatchResult: the per-player tuples of the returned results, the
\* winners' followed by the losers'
matchResults(d, winnerIds, loserIds) ==
  LET eloChange == eloGainOf(d, winnerIds, loserIds)
      eloLoss == BASE_ELO - eloChange
  IN [ winners |-> [i \in 1..Len(winnerIds) |->
                      [ odiscordId |-> winnerIds[i],
                        oldElo |-> d[winnerIds[i]].elo,
                        newElo |-> d[winnerIds[i]].elo + eloChange,
                        change |-> eloChange ]],
       losers |-> [i \in 1..Len(loserIds) |->
                     [ odiscordId |-> loserIds[i],
                       oldElo |-> d[loserIds[i]].elo,
                       newElo |-> Max2(0, d[loserIds[i]].elo - eloLoss),
                       change |-> 0 - eloLoss ]] ]

\* ------------------------------------------------------ matches (db)
\* the record declareDraw and the Discord draw command save
DrawResult(l) == [lobbyId |-> l.id, winner |-> "draw", isDraw |-> TRUE]

\* a saveMatch that writes nothing, against which the match records are tested
saveNothing(M, matchData) == M

\* saveMatch(matchData): the newest match first, the last MATCH_LIMIT kept
saveMatch(M, matchData) ==
  LET all == <<matchData>> \o M
  IN IF Len(all) > MATCH_LIMIT THEN SubSeq(all, 1, MATCH_LIMIT) ELSE all

\* --------------------------------------------------------------- Init
Init ==
  /\ lobbies = [c \in Codes |-> 0]
  /\ heap = [o \in Oids |-> FreeObj]
  /\ sessions = [u \in Players |-> "none"]
  /\ db = [u \in Players |-> NewPlayer]
  /\ matches = <<>>
  /\ purgeImmunity = {}
  /\ dailyImmunity = <<>>
  /\ tasks = EmptyBag
  /\ reply = "off"

\* The last reply is recorded unless the behaviour starts with reply = "off".
Shown(msg) == IF reply = "off" THEN "off" ELSE msg

\* A command that is turned away: the message goes to the issuer only.
Reject(msg) ==
  /\ reply' = Shown(msg)
  /\ UNCHANGED <<lobbies, heap, sessions, db, matches, purgeImmunity, dailyImmunity, tasks>>

\* The new registry, heap and task bag of a step; unreferenced objects are dropped.
Store(L, H, T) ==
  /\ lobbies' = L
  /\ tasks' = T
  /\ heap' = Collect(H, L, T)

\* deleteLobby(code): the lookup is by the code as given; the sessions are
\* cleared and the entry removed after the await on the voice-channel moves.
\* io: the await really suspends, and the rest runs as a later step.
\* The result is the registry, sessions and tasks after the synchronous part.
deleteLobby(L, S, T, code, io) ==
  IF code \notin DOMAIN L \/ L[code] = 0 THEN [L |-> L, S |-> S, T |-> T]
  ELSE IF io THEN [L |-> L, S |-> S, T |-> T (+) SetToBag({Task("delete", 0, code, <<>>, <<>>, "")})]
  ELSE [L |-> [c \in DOMAIN L |-> IF c = code THEN 0 ELSE L[c]],
        S |-> clearLobbySession(S, code), T |-> T]

\* What deleteLobby does after its await.
DeleteLobbyResume(code) ==
  LET t == Task("delete", 0, code, <<>>, <<>>, "") IN
  /\ BagIn(t, tasks)
  /\ Store([c \in DOMAIN lobbies |-> IF c = code THEN 0 ELSE lobbies[c]], heap, tasks (-) SetToBag({t}))
  /\ sessions' = clearLobbySession(sessions, code)
  /\ reply' = Shown("none")
  /\ UNCHANGED <<db, matches, purgeImmunity, dailyImmunity>>

\* At most MaxTimers callbacks of a kind are pending for a lobby.
PendingKind(T, kind, o, code) ==
  LET same == {t \in BagToSet(T) : t.kind = kind /\ t.o = o /\ t.code = code}
      RECURSIVE Sum(_)
      Sum(X) == IF X = {} THEN 0
                ELSE LET t == CHOOSE t \in X : TRUE IN CopiesIn(t, T) + Sum(X \ {t})
  IN Sum(same)

Bounded(T) == \A t \in BagToSet(T) : PendingKind(T, t.kind, t.o, t.code) <= MaxTimers

CanAdd(T, t) == Bounded(T (+) SetToBag({t}))

\* A handler that is about to call deleteTeamVoiceChannels, a name no source
\* file defines: its promise will be rejected with a ReferenceError.
Thrown == Task("throw", 0, "", <<>>, <<>>, "")

\* T with the rejection pending (one pending rejection stands for any number)
Throwing(T) == IF BagIn(Thrown, T) THEN T ELSE T (+) SetToBag({Thrown})

\* ------------------------------------------------- registry commands
\* socket.on('createLobby'): generateLobbyCode is retried until the code is free;
\* of the free codes, which are interchangeable, the first is taken.
CreateLobby(u, maxPlayers) ==
  IF \E c \in DOMAIN lobbies : lobbies[c] # 0 /\ heap[lobbies[c]].host = u
  THEN Reject("You are already hosting a lobby")
  ELSE IF sessions[u] # "none" /\ getLobby(sessions[u]) # 0
  THEN Reject("You are already in a lobby. Leave it first.")
  ELSE \E code \in DOMAIN lobbies, o \in Oids :
         /\ Cardinality({o2 \in Oids : heap[o2].phase # "none"})
              < MaxLobbies * Cardinality(DOMAIN lobbies)
         /\ lobbies[code] = 0
         /\ \A c2 \in DOMAIN lobbies : lobbies[c2] = 0 => Rank(code) <= Rank(c2)
         /\ heap[o].phase = "none"
         /\ \A o2 \in Oids : heap[o2].phase = "none" => o <= o2
         /\ Store([lobbies EXCEPT ![code] = o],
                  [heap EXCEPT ![o] = NewLobby(code, u, maxPlayers)], tasks)
         /\ sessions' = setUserSession(sessions, u, code)
         /\ reply' = Shown("lobbyCreated")
         /\ UNCHANGED <<db, matches, purgeImmunity, dailyImmunity>>

\* socket.on('joinLobby')
JoinLobby(code, u) ==
  LET o == getLobby(code) IN
  IF o = 0 THEN Reject("Lobby not found")
  ELSE IF u \in heap[o].players THEN Reject("lobbyJoined")
  ELSE IF heap[o].phase # "waiting" THEN Reject("Game already in progress")
  ELSE /\ Store(lobbies, [heap EXCEPT ![o].players = @ \cup {u}], tasks)
       /\ sessions' = setUserSession(sessions, u, heap[o].id)
       /\ reply' = Shown("lobbyJoined")
       /\ UNCHANGED <<db, matches, purgeImmunity, dailyImmunity>>

\* A leaveLobby that takes the host off the roster like any other member,
\* against which the host's place on the roster is tested.
leaveLobbyAsMember(code, u) ==
  LET o == getLobby(code) IN
  IF o = 0 THEN Reject("silent")
  ELSE IF heap[o].phase # "waiting" THEN Reject("Cannot leave after game started")
  ELSE /\ Store(lobbies, [heap EXCEPT ![o].players = @ \ {u}], tasks)
       /\ sessions' = clearUserSession(sessions, u)
       /\ reply' = Shown("lobbyUpdate")
       /\ UNCHANGED <<db, matches, purgeImmunity, dailyImmunity>>

\* socket.on('leaveLobby')
LeaveLobby(code, u) ==
  LET o == getLobby(code) IN
  IF o = 0 THEN Reject("silent")
  ELSE IF heap[o].phase # "waiting" THEN Reject("Cannot leave after game started")
  ELSE IF u = heap[o].host
  THEN \E io \in BOOLEAN :
       LET r == deleteLobby(lobbies, sessions, tasks, code, io) IN
       /\ Bounded(r.T)
       /\ Store(r.L, heap, r.T)
       /\ sessions' = r.S
       /\ reply' = Shown("lobbyClosed")
       /\ UNCHANGED <<db, matches, purgeImmunity, dailyImmunity>>
  ELSE /\ Store(lobbies, [heap EXCEPT ![o].players = @ \ {u}], tasks)
       /\ sessions' = clearUserSession(sessions, u)
       /\ reply' = Shown("lobbyUpdate")
       /\ UNCHANGED <<db, matches, purgeImmunity, dailyImmunity>>

\* A kickPlayer without the host check, against which the host-only rule is
\* tested.
kickPlayerByAnyone(code, u, target) ==
  LET o == getLobby(code) IN
  IF o = 0 THEN Reject("silent")
  ELSE IF heap[o].phase # "waiting" THEN Reject("Cannot kick after game started")
  ELSE IF target = heap[o].host THEN Reject("Cannot kick yourself")
  ELSE /\ Store(lobbies, [heap EXCEPT ![o].players = @ \ {target}], tasks)
       /\ sessions' = clearUserSession(sessions, target)
       /\ reply' = Shown("playerKicked")
       /\ UNCHANGED <<db, matches, purgeImmunity, dailyImmunity>>

\* socket.on('kickPlayer')
KickPlayer(code, u, target) ==
  LET o == getLobby(code) IN
  IF o = 0 THEN Reject("silent")
  ELSE IF u # heap[o].host THEN Reject("Only host can kick players")
  ELSE IF heap[o].phase # "waiting" THEN Reject("Cannot kick after game started")
  ELSE IF target = heap[o].host THEN Reject("Cannot kick yourself")
  ELSE /\ Store(lobbies, [heap EXCEPT ![o].players = @ \ {target}], tasks)
       /\ sessions' = clearUserSession(sessions, target)
       /\ reply' = Shown("playerKicked")
       /\ UNCHANGED <<db, matches, purgeImmunity, dailyImmunity>>

\* socket.on('closeLobby')
CloseLobby(code, u) ==
  LET o == getLobby(code) IN
  IF o = 0 THEN Reject("silent")
  ELSE IF u # heap[o].host THEN Reject("Only host can close lobby")
  ELSE \E io \in BOOLEAN :
       LET r == deleteLobby(lobbies, sessions, tasks, code, io) IN
       /\ Bounded(r.T)
       /\ Store(r.L, heap, r.T)
       /\ sessions' = r.S
       /\ reply' = Shown("lobbyClosed")
       /\ UNCHANGED <<db, matches, purgeImmunity, dailyImmunity>>

\* ------------------------------- registry commands, earlier server
\* src/unnamed/part_004 lines 1-735 hold an earlier server whose registry
\* functions differ from those of server.js.
\* createLobby: the generated code is used as it comes
EarlyCreateLobby(u, maxPlayers, code) ==
  \E o \in Oids :
    /\ heap[o].phase = "none"
    /\ \A o2 \in Oids : heap[o2].phase = "none" => o <= o2
    /\ Store([lobbies EXCEPT ![code] = o],
             [heap EXCEPT ![o] = [NewLobby(code, u, maxPlayers) EXCEPT !.picksLeft = 1]],
             tasks)
    /\ sessions' = setUserSession(sessions, u, code)
    /\ reply' = Shown("lobbyCreated")
    /\ UNCHANGED <<db, matches, purgeImmunity, dailyImmunity>>

EarlyJoinLobby(code, u) ==
  LET o == lobbies[toUpperCase(code)] IN
  IF o = 0 THEN Reject("Lobby not found")
  ELSE IF heap[o].phase # "waiting"
  THEN Reject(IF u \in heap[o].players THEN "lobbyJoined" ELSE "Game already started")
  ELSE IF Cardinality(heap[o].players) >= heap[o].maxPlayers THEN Reject("Lobby is full")
  ELSE IF u \in heap[o].players THEN Reject("lobbyJoined")
  ELSE /\ Store(lobbies, [heap EXCEPT ![o].players = @ \cup {u}], tasks)
       /\ sessions' = setUserSession(sessions, u, heap[o].id)
       /\ reply' = Shown("lobbyJoined")
       /\ UNCHANGED <<db, matches, purgeImmunity, dailyImmunity>>

\* deleteLobby(code) of the earlier server, on the registry L and sessions S
EarlyDeleteLobby(L, S, code) ==
  [L |-> [c \in DOMAIN L |-> IF c = code THEN 0 ELSE L[c]], S |-> clearLobbySession(S, code)]

EarlyLeaveLobby(code, u) ==
  LET o == IF code \in DOMAIN lobbies THEN lobbies[code] ELSE 0
      r == EarlyDeleteLobby(lobbies, sessions, code)
  IN
  IF o = 0 THEN Reject("silent")
  ELSE IF heap[o].phase # "waiting" THEN Reject("Cannot leave after game started")
  ELSE IF u = heap[o].host
  THEN /\ Store(r.L, heap, tasks)
       /\ sessions' = r.S
       /\ reply' = Shown("lobbyClosed")
       /\ UNCHANGED <<db, matches, purgeImmunity, dailyImmunity>>
  ELSE /\ Store(lobbies, [heap EXCEPT ![o].players = @ \ {u}], tasks)
       /\ sessions' = clearUserSession(sessions, u)
       /\ reply' = Shown("lobbyUpdate")
       /\ UNCHANGED <<db, matches, purgeImmunity, dailyImmunity>>

EarlyCloseLobby(code, u) ==
  LET o == IF code \in DOMAIN lobbies THEN lobbies[code] ELSE 0
      r == EarlyDeleteLobby(lobbies, sessions, code)
  IN
  IF o = 0 THEN Reject("silent")
  ELSE IF u # heap[o].host THEN Reject("Only the host can close the lobby")
  ELSE /\ Store(r.L, heap, tasks)
       /\ sessions' = r.S
       /\ reply' = Shown("lobbyClosed")
       /\ UNCHANGED <<db, matches, purgeImmunity, dailyImmunity>>

\* socket.on('startCaptainSelect') of the earlier server
EarlyStartCaptainSelect(code, u) ==
  LET o == IF code \in DOMAIN lobbies THEN lobbies[code] ELSE 0 IN
  IF o = 0 THEN Reject("Lobby not found")
  ELSE IF u # heap[o].host THEN Reject("Only the host can start the game")
  ELSE IF Cardinality(heap[o].players) < MIN_PLAYERS
  THEN Reject("Need at least 4 players to start")
  ELSE /\ Store(lobbies, [heap EXCEPT ![o].phase = "captain-select"], tasks)
       /\ reply' = Shown("lobbyUpdate")
       /\ UNCHANGED <<sessions, db, matches, purgeImmunity, dailyImmunity>>

\* socket.on('selectCaptain') of the earlier server; turn is what
\* Math.random() < 0.5 ? 'team1' : 'team2' gives
EarlySelectCaptain(code, u, target) ==
  LET o == IF code \in DOMAIN lobbies THEN lobbies[code] ELSE 0
      l == heap[o]
  IN
  IF o = 0 THEN Reject("Lobby not found")
  ELSE IF u # l.host THEN Reject("Only the host can select captains")
  ELSE IF l.phase # "captain-select" THEN Reject("Not in captain selection phase")
  ELSE IF Len(l.captains) >= 2 THEN Reject("Already have 2 captains")
  ELSE IF target \in Range(l.captains) THEN Reject("Player is already a captain")
  ELSE IF target \notin l.players THEN Reject("Player not found")
  ELSE /\ \E turn \in TeamNames :
            Store(lobbies,
                  [heap EXCEPT ![o] =
                     IF l.captains = <<>>
                     THEN [l EXCEPT !.captains = Append(@, target),
                                    !.teams.team1 = Append(@, target)]
                     ELSE [l EXCEPT !.captains = Append(@, target),
                                    !.teams.team2 = Append(@, target),
                                    !.phase = "drafting",
                                    !.currentTurn = turn,
                                    !.picksLeft = 1]],
                  tasks)
       /\ reply' = Shown("lobbyUpdate")
       /\ UNCHANGED <<sessions, db, matches, purgeImmunity, dailyImmunity>>

\* An uncaught TypeError or ReferenceError: the handler or callback stops where it is.  Without an
\* uncaughtException / unhandledRejection handler the runtime either only logs a
\* rejected promise or ends the process; a restarted process has the persisted
\* sessions and player records and nothing else.
TypeError(L, H, T, S, PI, DI, crash) ==
  /\ IF crash
     THEN /\ Store([c \in DOMAIN lobbies |-> 0], H, EmptyBag)
          /\ purgeImmunity' = {}
          /\ dailyImmunity' = <<>>
     ELSE /\ Store(L, H, T)
          /\ purgeImmunity' = PI
          /\ dailyImmunity' = DI
  /\ sessions' = S
  /\ reply' = Shown("TypeError")
  /\ UNCHANGED <<db, matches>>

\* await deleteTeamVoiceChannels(lobby) at the end of declareDraw and of the
\* Discord result commands: the ReferenceError is not caught.
DeleteTeamVoiceChannels ==
  /\ BagIn(Thrown, tasks)
  /\ \E crash \in BOOLEAN :
       TypeError(lobbies, heap, tasks (-) SetToBag({Thrown}), sessions,
                 purgeImmunity, dailyImmunity, crash)

\* ------------------------------------------------------------- purge
\* A startCaptainSelect that never purges, against which the phase it chooses
\* is tested.
startCaptainSelectNoPurge(code, u) ==
  LET o == getLobby(code) IN
  IF o = 0 THEN Reject("Lobby not found")
  ELSE IF u # heap[o].host THEN Reject("Only the host can start the game")
  ELSE IF Cardinality(heap[o].players) < MIN_PLAYERS THEN Reject("Need at least 4 players")
  ELSE /\ heap[o].starts < MaxStarts
       /\ Store(lobbies, [heap EXCEPT ![o].phase = "captain-select", ![o].starts = @ + 1], tasks)
       /\ reply' = Shown("lobbyUpdate")
       /\ UNCHANGED <<sessions, db, matches, purgeImmunity, dailyImmunity>>

\* socket.on('startCaptainSelect')
StartCaptainSelect(code, u) ==
  LET o == getLobby(code) IN
  IF o = 0 THEN Reject("Lobby not found")
  ELSE IF u # heap[o].host THEN Reject("Only the host can start the game")
  ELSE IF Cardinality(heap[o].players) < MIN_PLAYERS THEN Reject("Need at least 4 players")
  ELSE IF Cardinality(heap[o].players) > heap[o].maxPlayers
  THEN /\ CanAdd(tasks, Timer("purge", o))
       /\ heap[o].starts < MaxStarts
       /\ Store(lobbies,
                [heap EXCEPT ![o].phase = "purging",
                             ![o].purgeData = [present |-> TRUE, eliminated |-> {}],
                             ![o].starts = @ + 1],
                tasks (+) SetToBag({Timer("purge", o)}))
       /\ reply' = Shown("purgeStart")
       /\ UNCHANGED <<sessions, db, matches, purgeImmunity, dailyImmunity>>
  ELSE /\ heap[o].starts < MaxStarts
       /\ Store(lobbies, [heap EXCEPT ![o].phase = "captain-select", ![o].starts = @ + 1], tasks)
       /\ reply' = Shown("lobbyUpdate")
       /\ UNCHANGED <<sessions, db, matches, purgeImmunity, dailyImmunity>>

\* the players whose daily-immunity entry has not expired
Cooling == UNION Range(dailyImmunity)

\* runPurge: roster members with no daily-immunity entry, or an expired one
dailyImmunePlayers(l) == l.players \ Cooling

\* A filter that runPurge does not use, against which the purge properties are
\* tested: it lets the host through.
eliminatableWithHost(l) ==
  {p \in l.players : p \notin purgeImmunity /\ p \notin dailyImmunePlayers(l)}

\* runPurge: the roster members that may be eliminated
eliminatablePlayers(l) ==
  {p \in l.players : p # l.host /\ p \notin purgeImmunity /\ p \notin dailyImmunePlayers(l)}

toEliminate(l) == Cardinality(l.players) - l.maxPlayers

\* An elimination loop without the break on an empty list, which does not end
\* when fewer players can be eliminated than the excess.
loopCountNoBreak(l) == Max2(0, toEliminate(l))

\* runPurge: how many times the elimination loop removes a player
loopCount(l) == Min2(Max2(0, toEliminate(l)), Cardinality(eliminatablePlayers(l)))

\* setTimeout(() => runPurge(lobby), 5000); eliminated is what Math.random picks
RunPurge(o, eliminated) ==
  LET l == heap[o]
      T == tasks (-) SetToBag({Timer("purge", o)})
      DI == IF dailyImmunePlayers(l) = {} THEN dailyImmunity
            ELSE Append(dailyImmunity, dailyImmunePlayers(l))
      PI == (purgeImmunity \ l.players) \cup eliminated
      S == [u \in Players |-> IF u \in eliminated THEN "none" ELSE sessions[u]]
      H == [heap EXCEPT ![o].players = @ \ eliminated,
                        ![o].purgeData = [present |-> TRUE, eliminated |-> eliminated]]
  IN /\ BagIn(Timer("purge", o), tasks)
     /\ eliminated \subseteq eliminatablePlayers(l)
     /\ Cardinality(eliminated) = loopCount(l)
     /\ IF l.purgeData.present
        THEN /\ CanAdd(T, Timer("complete", o))
             /\ Store(lobbies, H, T (+) SetToBag({Timer("complete", o)}))
             /\ sessions' = S
             /\ purgeImmunity' = PI
             /\ dailyImmunity' = DI
             /\ reply' = Shown("none")
             /\ UNCHANGED <<db, matches>>
        ELSE \E crash \in BOOLEAN :
               TypeError(lobbies, [heap EXCEPT ![o].players = @ \ eliminated], T, S, PI, DI, crash)

\* the completion timer set by runPurge
PurgeComplete(o) ==
  /\ BagIn(Timer("complete", o), tasks)
  /\ Store(lobbies,
           [heap EXCEPT ![o].phase = "captain-select", ![o].purgeData = NoPurgeData],
           tasks (-) SetToBag({Timer("complete", o)}))
  /\ reply' = Shown("none")
  /\ UNCHANGED <<sessions, db, matches, purgeImmunity, dailyImmunity>>

\* Date.now() passes the oldest immuneUntil
ImmunityExpires ==
  /\ dailyImmunity # <<>>
  /\ dailyImmunity' = Tail(dailyImmunity)
  /\ reply' = Shown("none")
  /\ UNCHANGED <<lobbies, heap, sessions, db, matches, purgeImmunity, tasks>>

\* ------------------------------------------------------------- draft
\* socket.on('selectCaptain')
SelectCaptain(code, u, target) ==
  LET o == getLobby(code)
      l == heap[o]
      caps == Append(l.captains, target)
  IN
  IF o = 0 THEN Reject("Lobby not found")
  ELSE IF u # l.host THEN Reject("Only the host can select captains")
  ELSE IF l.phase # "captain-select" THEN Reject("Not in captain select phase")
  ELSE IF target \notin l.players THEN Reject("Player not found")
  ELSE IF target \in Range(l.captains) THEN Reject("Player is already a captain")
  ELSE /\ Store(lobbies,
                [heap EXCEPT ![o] =
                   IF Len(caps) = 1
                   THEN [l EXCEPT !.captains = caps, !.teams.team1 = Append(@, target)]
                   ELSE IF Len(caps) = 2
                   THEN [l EXCEPT !.captains = caps, !.teams.team2 = Append(@, target),
                                  !.phase = "drafting", !.currentTurn = "team1",
                                  !.picksLeft = 1]
                   ELSE [l EXCEPT !.captains = caps]],
                tasks)
       /\ reply' = Shown("lobbyUpdate")
       /\ UNCHANGED <<sessions, db, matches, purgeImmunity, dailyImmunity>>

\* socket.on('removeCaptain')
RemoveCaptain(code, u, target) ==
  LET o == getLobby(code)
      l == heap[o]
  IN
  IF o = 0 THEN Reject("Lobby not found")
  ELSE IF u # l.host THEN Reject("Only the host can remove captains")
  ELSE IF l.phase # "captain-select" THEN Reject("Can only remove captains during captain select")
  ELSE IF target \notin Range(l.captains) THEN Reject("Player is not a captain")
  ELSE /\ l.removes < MaxRemoves
       /\ Store(lobbies,
                [heap EXCEPT ![o].removes = @ + 1,
                             ![o].captains = SpliceFirst(@, target),
                             ![o].teams.team1 = Without(@, target),
                             ![o].teams.team2 = Without(@, target)],
                tasks)
       /\ reply' = Shown("lobbyUpdate")
       /\ UNCHANGED <<sessions, db, matches, purgeImmunity, dailyImmunity>>

\* startPlaying(lobby): the phase is set after the await on createTeamVoiceChannels
startPlaying(H, T, o, io) ==
  IF io THEN [H |-> H, T |-> T (+) SetToBag({Timer("startPlaying", o)})]
  ELSE [H |-> [H EXCEPT ![o].phase = "playing", ![o].currentTurn = "null",
                        ![o].applied = 0], T |-> T]

\* What startPlaying does after its await.
StartPlayingResume(o) ==
  /\ BagIn(Timer("startPlaying", o), tasks)
  /\ Store(lobbies, [heap EXCEPT ![o].phase = "playing", ![o].currentTurn = "null",
                                 ![o].applied = 0],
           tasks (-) SetToBag({Timer("startPlaying", o)}))
  /\ reply' = Shown("none")
  /\ UNCHANGED <<sessions, db, matches, purgeImmunity, dailyImmunity>>

\* draftPick's turn bookkeeping with an allotment of 2 that is not clamped
nextTurnUnclamped(l) ==
  [l EXCEPT !.currentTurn = OtherTeam(l.currentTurn), !.picksLeft = 2]

\* draftPick: the turn bookkeeping after a pick that does not fill the teams
nextTurn(l) ==
  LET turn == OtherTeam(l.currentTurn)
      totalPicked == Len(l.teams.team1) + Len(l.teams.team2)
      playersPerTeam == l.maxPlayers \div 2
      unpickedPlayers == Cardinality(l.players) - totalPicked
  IN [l EXCEPT !.currentTurn = turn,
               !.picksLeft = Min3(2, playersPerTeam - Len(l.teams[turn]), unpickedPlayers)]

\* socket.on('draftPick')
DraftPick(code, u, target) ==
  LET o == getLobby(code)
      l == heap[o]
      turnTeam == IF l.currentTurn = "team1" THEN l.teams.team1 ELSE l.teams.team2
      picked == [l EXCEPT !.teams[l.currentTurn] = Append(@, target), !.picksLeft = @ - 1]
      totalPicked == Len(picked.teams.team1) + Len(picked.teams.team2)
      H1 == [heap EXCEPT ![o] = picked]
      H2 == [heap EXCEPT ![o] = nextTurn(picked)]
      Go(r) == /\ Bounded(r.T)
               /\ Store(lobbies, r.H, r.T)
               /\ reply' = Shown("lobbyUpdate")
               /\ UNCHANGED <<sessions, db, matches, purgeImmunity, dailyImmunity>>
  IN
  IF o = 0 THEN Reject("Lobby not found")
  ELSE IF l.phase # "drafting" THEN Reject("Not in drafting phase")
  ELSE IF turnTeam = <<>>
  THEN \E crash \in BOOLEAN :
         TypeError(lobbies, heap, tasks, sessions, purgeImmunity, dailyImmunity, crash)
  ELSE IF u # turnTeam[1] THEN Reject("Not your turn to pick")
  ELSE IF target \notin l.players THEN Reject("Player not found")
  ELSE IF target \in Range(l.captains) \cup Range(l.teams.team1) \cup Range(l.teams.team2)
  THEN Reject("Player already picked")
  ELSE IF l.currentTurn \notin TeamNames
  THEN \E crash \in BOOLEAN :
         TypeError(lobbies, heap, tasks, sessions, purgeImmunity, dailyImmunity, crash)
  ELSE IF totalPicked >= l.maxPlayers
  THEN \E io \in BOOLEAN : Go(startPlaying(H1, tasks, o, io))
  ELSE IF picked.picksLeft # 0 THEN Go([H |-> H1, T |-> tasks])
  ELSE IF H2[o].picksLeft = 0
  THEN \E io \in BOOLEAN : Go(startPlaying(H2, tasks, o, io))
  ELSE Go([H |-> H2, T |-> tasks])

\* ------------------------------------------------------------- match
\* A result command is explored while nobody has played more than MaxGames games.
GamesLeft == \A p \in Players : db[p].gamesPlayed <= MaxGames

Count(n) == Min2(n + 1, 2)

\* lobby.teams[winnerTeam].map(p => p.odiscordId) for the team finishMatch takes as winner
winnerOf(l) == IF l.score.team1 >= WIN_SCORE THEN "team1" ELSE "team2"

\* finishMatch(lobby) up to its first await that suspends; io: a player has a
\* linked Minecraft account and the statistics are fetched.  The result is the
\* heap, the tasks and the player records.
finishMatch(H, T, D, o, io) ==
  LET l == H[o]
      winnerIds == l.teams[winnerOf(l)]
      loserIds == l.teams[OtherTeam(winnerOf(l))]
      H1 == [H EXCEPT ![o].phase = "finished", ![o].done = TRUE]
  IN IF io
     THEN [H |-> H1, T |-> T (+) SetToBag({Task("finish", o, "", winnerIds, loserIds, "")}), D |-> D]
     ELSE [H |-> [H1 EXCEPT ![o].eloResults = eloGainOf(D, winnerIds, loserIds),
                            ![o].applied = Count(@)],
           T |-> T (+) SetToBag({Timer("destroy", o)}),
           D |-> processMatchResult(D, winnerIds, loserIds)]

\* finishMatch after the statistics have been fetched
FinishMatchResume(t) ==
  /\ BagIn(t, tasks)
  /\ t.kind = "finish"
  /\ CanAdd(tasks, Timer("destroy", t.o))
  /\ Store(lobbies,
           [heap EXCEPT ![t.o].eloResults = eloGainOf(db, t.winners, t.losers),
                        ![t.o].applied = Count(@)],
           (tasks (-) SetToBag({t})) (+) SetToBag({Timer("destroy", t.o)}))
  /\ db' = processMatchResult(db, t.winners, t.losers)
  /\ reply' = Shown("none")
  /\ UNCHANGED <<sessions, matches, purgeImmunity, dailyImmunity>>

\* the timer set at the end of finishMatch: deleteLobby(lobby.id)
DestroyLobby(o) ==
  \E io \in BOOLEAN :
  LET T == tasks (-) SetToBag({Timer("destroy", o)})
      r == deleteLobby(lobbies, sessions, T, heap[o].id, io)
  IN /\ BagIn(Timer("destroy", o), tasks)
     /\ Bounded(r.T)
     /\ Store(r.L, heap, r.T)
     /\ sessions' = r.S
     /\ reply' = Shown("none")
     /\ UNCHANGED <<db, matches, purgeImmunity, dailyImmunity>>

HasMembers(l) == l.teams.team1 # <<>> \/ l.teams.team2 # <<>>

\* socket.on('addScore'); a team that is not a key of score leaves the score as it is
AddScore(code, u, team) ==
  LET o == getLobby(code)
      l == heap[o]
      scored == IF team \in TeamNames THEN [l EXCEPT !.score[team] = @ + 1] ELSE l
  IN
  IF o = 0 THEN Reject("Lobby not found")
  ELSE IF l.phase # "playing" THEN Reject("Match not in progress")
  ELSE IF u # l.host THEN Reject("Only the host can add scores")
  ELSE IF scored.score.team1 >= WIN_SCORE \/ scored.score.team2 >= WIN_SCORE
  THEN \E io \in BOOLEAN :
       LET r == finishMatch([heap EXCEPT ![o] = scored], tasks, db, o, io) IN
       /\ GamesLeft
       /\ io => HasMembers(l)
       /\ Bounded(r.T)
       /\ Store(lobbies, r.H, r.T)
       /\ db' = r.D
       /\ reply' = Shown("lobbyUpdate")
       /\ UNCHANGED <<sessions, matches, purgeImmunity, dailyImmunity>>
  ELSE /\ Store(lobbies, [heap EXCEPT ![o] = scored], tasks)
       /\ reply' = Shown("lobbyUpdate")
       /\ UNCHANGED <<sessions, db, matches, purgeImmunity, dailyImmunity>>

\* socket.on('declareWinner'); with a team that is neither team1 nor team2 the
\* assignments leave team1 at 0 and finishMatch takes team2 as the winner
DeclareWinner(code, u, winnerTeam) ==
  LET o == getLobby(code)
      l == heap[o]
      scored == IF winnerTeam \in TeamNames
                THEN [l EXCEPT !.score[winnerTeam] = WIN_SCORE, !.score[OtherTeam(winnerTeam)] = 0]
                ELSE [l EXCEPT !.score.team1 = 0]
  IN
  IF o = 0 THEN Reject("Lobby not found")
  ELSE IF l.phase # "playing" THEN Reject("Match not in progress")
  ELSE IF u # l.host THEN Reject("Only the host can declare the winner")
  ELSE \E io \in BOOLEAN :
       LET r == finishMatch([heap EXCEPT ![o] = scored], tasks, db, o, io) IN
       /\ GamesLeft
       /\ io => HasMembers(l)
       /\ Bounded(r.T)
       /\ Store(lobbies, r.H, r.T)
       /\ db' = r.D
       /\ reply' = Shown("lobbyUpdate")
       /\ UNCHANGED <<sessions, matches, purgeImmunity, dailyImmunity>>

\* socket.on('declareDraw') (part_004): the draw is saved, nothing is rated
DeclareDraw(code, u) ==
  LET o == getLobby(code)
      l == heap[o]
  IN
  IF o = 0 THEN Reject("Lobby not found")
  ELSE IF l.phase # "playing" THEN Reject("Match not in progress")
  ELSE IF u # l.host THEN Reject("Only the host can declare a draw")
  ELSE /\ Store(lobbies,
                [heap EXCEPT ![o].phase = "finished", ![o].isDraw = TRUE,
                             ![o].score = [team1 |-> 0, team2 |-> 0],
                             ![o].applied = Count(@)],
                Throwing(tasks))
       /\ matches' = saveMatch(matches, DrawResult(l))
       /\ reply' = Shown("matchDraw")
       /\ UNCHANGED <<sessions, db, purgeImmunity, dailyImmunity>>

\* A reset that keeps the score, against which the frame of resetLobby is tested.
resetLobbyKeepingScore(code, u) ==
  LET o == getLobby(code)
      l == heap[o]
  IN
  IF o = 0 THEN Reject("Lobby not found")
  ELSE IF u # l.host THEN Reject("Only the host can reset the lobby")
  ELSE /\ l.resets < MaxResets
       /\ Store(lobbies,
                [heap EXCEPT ![o] =
                   [l EXCEPT !.phase = "waiting", !.captains = <<>>,
                             !.teams = [team1 |-> <<>>, team2 |-> <<>>],
                             !.currentTurn = "null", !.picksLeft = 0,
                             !.eloResults = 0,
                             !.applied = 0, !.done = FALSE, !.resets = @ + 1]],
                tasks)
       /\ reply' = Shown("lobbyUpdate")
       /\ UNCHANGED <<sessions, db, matches, purgeImmunity, dailyImmunity>>

\* socket.on('resetLobby')
ResetLobby(code, u) ==
  LET o == getLobby(code)
      l == heap[o]
  IN
  IF o = 0 THEN Reject("Lobby not found")
  ELSE IF u # l.host THEN Reject("Only the host can reset the lobby")
  ELSE /\ l.resets < MaxResets
       /\ Store(lobbies,
                [heap EXCEPT ![o] =
                   [l EXCEPT !.phase = "waiting", !.captains = <<>>,
                             !.teams = [team1 |-> <<>>, team2 |-> <<>>],
                             !.currentTurn = "null", !.picksLeft = 0,
                             !.score = [team1 |-> 0, team2 |-> 0], !.eloResults = 0,
                             !.applied = 0, !.done = FALSE, !.resets = @ + 1]],
                tasks)
       /\ reply' = Shown("lobbyUpdate")
       /\ UNCHANGED <<sessions, db, matches, purgeImmunity, dailyImmunity>>

\* ------------------------------------------------- Discord commands
\* interactionCreate 'declarewinner' (part_004): the records are updated, then
\* the rank roles are awaited one by one, and only then the phase is set.
\* mod: the issuer holds the moderator role.
DiscordDeclareWinner(code, u, mod, winnerTeam) ==
  LET o == getLobby(code)
      l == heap[o]
      winnerIds == l.teams[winnerTeam]
      loserIds == l.teams[OtherTeam(winnerTeam)]
      t == Task("dwinner", o, "", <<>>, <<>>, winnerTeam)
      H1 == [heap EXCEPT ![o].applied = Count(@)]
  IN
  IF o = 0 THEN Reject("Lobby not found.")
  ELSE IF l.host # u /\ ~mod THEN Reject("Only the host or moderators can declare winners.")
  ELSE IF l.phase # "playing" THEN Reject("Match is not in progress.")
  ELSE \E io \in BOOLEAN :
       /\ GamesLeft
       /\ io => HasMembers(l) /\ CanAdd(tasks, t)
       /\ IF io THEN Store(lobbies, H1, tasks (+) SetToBag({t}))
          ELSE Store(lobbies,
                     [H1 EXCEPT ![o].phase = "finished",
                                ![o].score = [team1 |-> IF winnerTeam = "team1" THEN WIN_SCORE ELSE 0,
                                              team2 |-> IF winnerTeam = "team2" THEN WIN_SCORE ELSE 0]],
                     Throwing(tasks))
       /\ db' = processMatchResult(db, winnerIds, loserIds)
       /\ reply' = Shown("declared winner")
       /\ UNCHANGED <<sessions, matches, purgeImmunity, dailyImmunity>>

\* 'declarewinner' after the rank roles have been updated
DiscordDeclareWinnerResume(t) ==
  /\ BagIn(t, tasks)
  /\ t.kind = "dwinner"
  /\ Store(lobbies,
           [heap EXCEPT ![t.o].phase = "finished",
                        ![t.o].score = [team1 |-> IF t.team = "team1" THEN WIN_SCORE ELSE 0,
                                        team2 |-> IF t.team = "team2" THEN WIN_SCORE ELSE 0]],
           Throwing(tasks (-) SetToBag({t})))
  /\ reply' = Shown("none")
  /\ UNCHANGED <<sessions, db, matches, purgeImmunity, dailyImmunity>>

\* interactionCreate 'draw' (part_004)
DiscordDraw(code, u, mod) ==
  LET o == getLobby(code)
      l == heap[o]
  IN
  IF o = 0 THEN Reject("Lobby not found.")
  ELSE IF l.host # u /\ ~mod THEN Reject("Only the host or moderators can declare a draw.")
  ELSE IF l.phase # "playing" THEN Reject("Match is not in progress.")
  ELSE /\ Store(lobbies,
                [heap EXCEPT ![o].phase = "finished", ![o].isDraw = TRUE,
                             ![o].applied = Count(@)],
                Throwing(tasks))
       /\ matches' = saveMatch(matches, DrawResult(l))
       /\ reply' = Shown("declared draw")
       /\ UNCHANGED <<sessions, db, purgeImmunity, dailyImmunity>>

\* --------------------------------------------------------------- Next
TaskKinds(k) == {t \in BagToSet(tasks) : t.kind = k}

Next ==
  \/ \E u \in Creators, m \in MaxPlayersArgs : CreateLobby(u, m)
  \/ \E c \in Codes, u \in Players : JoinLobby(c, u)
  \/ \E c \in CodeArgs, u \in Issuers : LeaveLobby(c, u)
  \/ \E c \in Codes, u \in Issuers, v \in Players : KickPlayer(c, u, v)
  \/ \E c \in CodeArgs, u \in Issuers : CloseLobby(c, u)
  \/ \E c \in Codes : DeleteLobbyResume(c)
  \/ \E c \in Codes, u \in Issuers : StartCaptainSelect(c, u)
  \/ \E o \in Oids, e \in SUBSET Players : RunPurge(o, e)
  \/ \E o \in Oids : PurgeComplete(o)
  \/ ImmunityExpires
  \/ \E c \in Codes, u \in Issuers, v \in Players : SelectCaptain(c, u, v)
  \/ \E c \in Codes, u \in Issuers, v \in Players : RemoveCaptain(c, u, v)
  \/ \E c \in Codes, u, v \in Players : DraftPick(c, u, v)
  \/ \E o \in Oids : StartPlayingResume(o)
  \/ \E c \in Codes, u \in Issuers, t \in TeamArgs : AddScore(c, u, t)
  \/ \E c \in Codes, u \in Issuers, t \in TeamArgs : DeclareWinner(c, u, t)
  \/ \E c \in Codes, u \in Issuers : DeclareDraw(c, u)
  \/ \E t \in TaskKinds("finish") : FinishMatchResume(t)
  \/ \E o \in Oids : DestroyLobby(o)
  \/ \E c \in Codes, u \in Issuers : ResetLobby(c, u)
  \/ \E c \in Codes, u \in Issuers, mod \in BOOLEAN, t \in TeamNames :
       DiscordDeclareWinner(c, u, mod, t)
  \/ \E t \in TaskKinds("dwinner") : DiscordDeclareWinnerResume(t)
  \/ \E c \in Codes, u \in Issuers, mod \in BOOLEAN : DiscordDraw(c, u, mod)
  \/ DeleteTeamVoiceChannels

Spec == Init /\ [][Next]_vars

\* ------------------------------------------------------ parts of Next
\* The whole machine is too large to explore at once; each of the following
\* specifications runs part of the handlers, so that each of its behaviours is
\* a behaviour of Spec.

\* overflow handling: roster changes, purge, immunity, captains, reset
NextPurge ==
  \/ \E u \in Creators, m \in MaxPlayersArgs : CreateLobby(u, m)
  \/ \E c \in Codes, u \in Players : JoinLobby(c, u)
  \/ \E c \in Codes, u \in Players : LeaveLobby(c, u)
  \/ \E c \in Codes, u \in Issuers, v \in Players : KickPlayer(c, u, v)
  \/ \E c \in Codes, u \in Issuers : StartCaptainSelect(c, u)
  \/ \E o \in Oids, e \in SUBSET Players : RunPurge(o, e)
  \/ \E o \in Oids : PurgeComplete(o)
  \/ ImmunityExpires
  \/ \E c \in Codes, u \in Issuers, v \in Players : SelectCaptain(c, u, v)
  \/ \E c \in Codes, u \in Issuers : ResetLobby(c, u)

SpecPurge == Init /\ [][NextPurge]_vars

\* the same with the timers of startCaptainSelect and runPurge firing: a
\* pending setTimeout callback is run by the event loop
TimersFire ==
  /\ WF_vars(\E o \in Oids, e \in SUBSET Players : RunPurge(o, e))
  /\ WF_vars(\E o \in Oids : PurgeComplete(o))

SpecPurgeFair == SpecPurge /\ TimersFire

\* team formation with a roster that needs no purge
NextDraft ==
  \/ \E u \in Creators, m \in MaxPlayersArgs : CreateLobby(u, m)
  \/ \E c \in Codes, u \in DraftPlayers : JoinLobby(c, u)
  \/ \E c \in Codes, u \in Issuers : StartCaptainSelect(c, u)
  \/ \E c \in Codes, u \in Issuers, v \in Players : SelectCaptain(c, u, v)
  \/ \E c \in Codes, u \in Issuers, v \in Players : RemoveCaptain(c, u, v)
  \/ \E c \in Codes, u, v \in Players : DraftPick(c, u, v)
  \/ \E o \in Oids : StartPlayingResume(o)
  \/ \E c \in Codes, u \in Issuers : ResetLobby(c, u)

SpecDraft == Init /\ [][NextDraft]_vars

\* the same with the reply to every command recorded
InitShown ==
  /\ lobbies = [c \in Codes |-> 0]
  /\ heap = [o \in Oids |-> FreeObj]
  /\ sessions = [u \in Players |-> "none"]
  /\ db = [u \in Players |-> NewPlayer]
  /\ matches = <<>>
  /\ purgeImmunity = {}
  /\ dailyImmunity = <<>>
  /\ tasks = EmptyBag
  /\ reply = "none"

SpecDraftShown == InitShown /\ [][NextDraft]_vars

\* the draft of a lobby of capacity 6, in which a turn of two picks occurs
TurnCapacities == {6}

NextTurns ==
  \/ \E u \in Creators, m \in TurnCapacities : CreateLobby(u, m)
  \/ \E c \in Codes, u \in Players : JoinLobby(c, u)
  \/ \E c \in Codes, u \in Issuers : StartCaptainSelect(c, u)
  \/ \E c \in Codes, u \in Issuers, v \in Players : SelectCaptain(c, u, v)
  \/ \E c \in Codes, u, v \in Players : DraftPick(c, u, v)
  \/ \E o \in Oids : StartPlayingResume(o)

SpecTurns == Init /\ [][NextTurns]_vars

\* a match from the lobby's creation to its removal, with the socket's result
\* commands
NextMatch ==
  \/ \E u \in Creators, m \in MaxPlayersArgs : CreateLobby(u, m)
  \/ \E c \in Codes, u \in DraftPlayers : JoinLobby(c, u)
  \/ \E c \in Codes, u \in Issuers : StartCaptainSelect(c, u)
  \/ \E c \in Codes, u \in Issuers, v \in Players : SelectCaptain(c, u, v)
  \/ \E c \in Codes, u \in Issuers, v \in Players : RemoveCaptain(c, u, v)
  \/ \E c \in Codes, u, v \in Players : DraftPick(c, u, v)
  \/ \E o \in Oids : StartPlayingResume(o)
  \/ \E c \in Codes, u \in Issuers, t \in TeamArgs : AddScore(c, u, t)
  \/ \E c \in Codes, u \in Issuers, t \in TeamArgs : DeclareWinner(c, u, t)
  \/ \E c \in Codes, u \in Issuers : DeclareDraw(c, u)
  \/ \E t \in TaskKinds("finish") : FinishMatchResume(t)
  \/ \E o \in Oids : DestroyLobby(o)
  \/ \E c \in Codes : DeleteLobbyResume(c)
  \/ DeleteTeamVoiceChannels

SpecMatch == Init /\ [][NextMatch]_vars

\* a match that the host may reset at any point
NextReset ==
  \/ \E u \in Creators, m \in MaxPlayersArgs : CreateLobby(u, m)
  \/ \E c \in Codes, u \in DraftPlayers : JoinLobby(c, u)
  \/ \E c \in Codes, u \in Issuers : StartCaptainSelect(c, u)
  \/ \E c \in Codes, u \in Issuers, v \in Players : SelectCaptain(c, u, v)
  \/ \E c \in Codes, u, v \in Players : DraftPick(c, u, v)
  \/ \E o \in Oids : StartPlayingResume(o)
  \/ \E c \in Codes, u \in Issuers, t \in TeamArgs : AddScore(c, u, t)
  \/ \E t \in TaskKinds("finish") : FinishMatchResume(t)
  \/ \E o \in Oids : DestroyLobby(o)
  \/ \E c \in Codes : DeleteLobbyResume(c)
  \/ \E c \in Codes, u \in Issuers : ResetLobby(c, u)

SpecReset == Init /\ [][NextReset]_vars

\* the host-only commands, issued by the host and by another player, with the
\* reply to every command recorded
NextHost ==
  \/ \E u \in Creators, m \in MaxPlayersArgs : CreateLobby(u, m)
  \/ \E c \in Codes, u \in DraftPlayers : JoinLobby(c, u)
  \/ \E c \in Codes, u \in Issuers : StartCaptainSelect(c, u)
  \/ \E c \in Codes, u \in Issuers, v \in Issuers : SelectCaptain(c, u, v)
  \/ \E c \in Codes, u \in Issuers, v \in Issuers : RemoveCaptain(c, u, v)
  \/ \E c \in Codes, u \in Issuers, v \in DraftPlayers \ Issuers : DraftPick(c, u, v)
  \/ \E o \in Oids : StartPlayingResume(o)
  \/ \E c \in Codes, u \in Issuers : AddScore(c, u, "team1")
  \/ \E c \in Codes, u \in Issuers : DeclareWinner(c, u, "team1")
  \/ \E c \in Codes, u \in Issuers : DeclareDraw(c, u)
  \/ \E c \in Codes, u \in Issuers : ResetLobby(c, u)
  \/ \E c \in Codes, u \in Issuers, v \in DraftPlayers \ Issuers : KickPlayer(c, u, v)
  \/ \E c \in Codes, u \in Issuers : CloseLobby(c, u)

SpecHost == InitShown /\ [][NextHost]_vars

\* the result commands of the socket and of Discord against one match
NextRace ==
  \/ \E u \in Creators, m \in MaxPlayersArgs : CreateLobby(u, m)
  \/ \E c \in Codes, u \in DraftPlayers : JoinLobby(c, u)
  \/ \E c \in Codes, u \in Issuers : StartCaptainSelect(c, u)
  \/ \E c \in Codes, u \in Issuers, v \in Players : SelectCaptain(c, u, v)
  \/ \E c \in Codes, u, v \in Players : DraftPick(c, u, v)
  \/ \E o \in Oids : StartPlayingResume(o)
  \/ \E c \in Codes, u \in Issuers, t \in TeamArgs : AddScore(c, u, t)
  \/ \E c \in Codes, u \in Issuers, t \in TeamArgs : DeclareWinner(c, u, t)
  \/ \E c \in Codes, u \in Issuers : DeclareDraw(c, u)
  \/ \E t \in TaskKinds("finish") : FinishMatchResume(t)
  \/ \E o \in Oids : DestroyLobby(o)
  \/ \E c \in Codes : DeleteLobbyResume(c)
  \/ \E c \in Codes, u \in Issuers, mod \in BOOLEAN, t \in TeamNames :
       DiscordDeclareWinner(c, u, mod, t)
  \/ \E t \in TaskKinds("dwinner") : DiscordDeclareWinnerResume(t)
  \/ \E c \in Codes, u \in Issuers, mod \in BOOLEAN : DiscordDraw(c, u, mod)
  \/ DeleteTeamVoiceChannels

SpecRace == Init /\ [][NextRace]_vars

\* processMatchResult on records with ratings from far apart
EloValues == {0, 10, 500, 1500}

\* the teams of a match: one or two of the first four players
RatingTeams ==
  {<<a>> : a \in DraftPlayers}
    \cup ({<<a, b>> : a, b \in DraftPlayers} \ {<<a, a>> : a \in DraftPlayers})

InitRating ==
  /\ lobbies = [c \in Codes |-> 0]
  /\ heap = [o \in Oids |-> FreeObj]
  /\ sessions = [u \in Players |-> "none"]
  /\ db \in [Players -> {[NewPlayer EXCEPT !.elo = e] : e \in EloValues}]
  /\ \A u \in Players \ DraftPlayers : db[u] = NewPlayer
  /\ matches = <<>>
  /\ purgeImmunity = {}
  /\ dailyImmunity = <<>>
  /\ tasks = EmptyBag
  /\ reply = "off"

\* db.processMatchResult(winnerIds, loserIds, lobbyId) for two teams of players
\* who have played fewer than MaxGames games
ProcessMatchResult(winnerIds, loserIds) ==
  /\ Range(winnerIds) \cap Range(loserIds) = {}
  /\ \A p \in Range(winnerIds) \cup Range(loserIds) : db[p].gamesPlayed < MaxGames
  /\ db' = processMatchResult(db, winnerIds, loserIds)
  /\ reply' = Shown("none")
  /\ UNCHANGED <<lobbies, heap, sessions, matches, purgeImmunity, dailyImmunity, tasks>>

NextRating == \E w, l \in RatingTeams : ProcessMatchResult(w, l)

SpecRating == InitRating /\ [][NextRating]_vars

\* CONFIG.RANKS: the rating from which a tier is held
RANKS ==
  [Netherite |-> 1500, Diamond |-> 1300, Amethyst |-> 1150, Emerald |-> 1000,
   Gold |-> 850, Iron |-> 700, Copper |-> 0]

\* the tiers from the lowest to the highest
Tiers == <<"Copper", "Iron", "Gold", "Emerald", "Amethyst", "Diamond", "Netherite">>

\* A lookup that tests the thresholds from the lowest upwards.
getRankAscending(elo) ==
  IF elo >= RANKS.Iron THEN "Iron"
  ELSE IF elo >= RANKS.Gold THEN "Gold"
  ELSE IF elo >= RANKS.Emerald THEN "Emerald"
  ELSE IF elo >= RANKS.Amethyst THEN "Amethyst"
  ELSE IF elo >= RANKS.Diamond THEN "Diamond"
  ELSE IF elo >= RANKS.Netherite THEN "Netherite"
  ELSE "Copper"

\* getRank(elo)
getRank(elo) ==
  IF elo >= RANKS.Netherite THEN "Netherite"
  ELSE IF elo >= RANKS.Diamond THEN "Diamond"
  ELSE IF elo >= RANKS.Amethyst THEN "Amethyst"
  ELSE IF elo >= RANKS.Emerald THEN "Emerald"
  ELSE IF elo >= RANKS.Gold THEN "Gold"
  ELSE IF elo >= RANKS.Iron THEN "Iron"
  ELSE "Copper"

\* ratings at and next to every threshold
RankElos == {0, 1, 20, 680, 699, 700, 849, 850, 870, 999, 1000, 1149, 1150, 1299, 1300,
             1499, 1500, 1530}

RankPlayers == {1, 2}

InitRank ==
  /\ lobbies = [c \in Codes |-> 0]
  /\ heap = [o \in Oids |-> FreeObj]
  /\ sessions = [u \in Players |-> "none"]
  /\ db \in [Players -> {[NewPlayer EXCEPT !.elo = e] : e \in RankElos \cup {STARTING_ELO}}]
  /\ \A u \in Players \ RankPlayers : db[u] = NewPlayer
  /\ matches = <<>>
  /\ purgeImmunity = {}
  /\ dailyImmunity = <<>>
  /\ tasks = EmptyBag
  /\ reply = "off"

\* the ranks of two players before and after a match between them
NextRank == \E a, b \in RankPlayers : ProcessMatchResult(<<a>>, <<b>>)

SpecRank == InitRank /\ [][NextRank]_vars

\* the registry of the earlier server
NextEarly ==
  \/ \E u \in Issuers, m \in MaxPlayersArgs, c \in Codes : EarlyCreateLobby(u, m, c)
  \/ \E c \in CodeArgs, u \in Players : EarlyJoinLobby(c, u)
  \/ \E c \in CodeArgs, u \in Players : EarlyLeaveLobby(c, u)
  \/ \E c \in CodeArgs, u \in Issuers : EarlyCloseLobby(c, u)
  \/ \E c \in CodeArgs, u \in Issuers : EarlyStartCaptainSelect(c, u)
  \/ \E c \in CodeArgs, u \in Issuers, v \in Players : EarlySelectCaptain(c, u, v)

SpecEarly == Init /\ [][NextEarly]_vars

\* a lobby that is closed while its purge is under way
NextClose ==
  \/ \E u \in Creators, m \in MaxPlayersArgs : CreateLobby(u, m)
  \/ \E c \in Codes, u \in Players : JoinLobby(c, u)
  \/ \E c \in Codes, u \in Issuers : StartCaptainSelect(c, u)
  \/ \E o \in Oids, e \in SUBSET Players : RunPurge(o, e)
  \/ \E o \in Oids : PurgeComplete(o)
  \/ ImmunityExpires
  \/ \E c \in CodeArgs, u \in Issuers : CloseLobby(c, u)
  \/ \E c \in Codes : DeleteLobbyResume(c)

SpecClose == Init /\ [][NextClose]_vars

\* the same with the reply to every command recorded
SpecCloseShown == InitShown /\ [][NextClose]_vars

\* joining and leaving, with the lobby's code given in either case and the
\* reply to every command recorded
NextLeave ==
  \/ \E u \in Creators, m \in MaxPlayersArgs : CreateLobby(u, m)
  \/ \E c \in CodeArgs, u \in Players : JoinLobby(c, u)
  \/ \E c \in CodeArgs, u \in Players : LeaveLobby(c, u)
  \/ \E c \in CodeArgs, u \in Issuers, v \in Players : KickPlayer(c, u, v)
  \/ \E c \in CodeArgs, u \in Issuers : StartCaptainSelect(c, u)
  \/ \E c \in Codes : DeleteLobbyResume(c)

SpecLeave == InitShown /\ [][NextLeave]_vars

\* The code of a lobby of an earlier run of the server: data/sessions.json is
\* kept on disk, the registry is not.
StaleCode == "CD"

\* the server started with the sessions file of an earlier run
InitRestarted ==
  /\ lobbies = [c \in Codes |-> 0]
  /\ heap = [o \in Oids |-> FreeObj]
  /\ sessions \in [Players -> {"none", StaleCode}]
  /\ \A u \in Creators : sessions[u] = "none"
  /\ db = [u \in Players |-> NewPlayer]
  /\ matches = <<>>
  /\ purgeImmunity = {}
  /\ dailyImmunity = <<>>
  /\ tasks = EmptyBag
  /\ reply = "none"

\* the roster commands of the waiting phase, with the reply recorded
NextKick ==
  \/ \E u \in Creators, m \in MaxPlayersArgs : CreateLobby(u, m)
  \/ \E c \in Codes, u \in DraftPlayers : JoinLobby(c, u)
  \/ \E c \in Codes, u \in Issuers, v \in Players : KickPlayer(c, u, v)

SpecKick == InitRestarted /\ [][NextKick]_vars

\* two lobbies registered at a time: the registry and roster commands addressed
\* to either of them
TwoCodes == Range(CodeOrder)
Hosts == {1, 2}

InitTwo ==
  /\ lobbies = [c \in TwoCodes |-> 0]
  /\ heap = [o \in Oids |-> FreeObj]
  /\ sessions = [u \in Players |-> "none"]
  /\ db = [u \in Players |-> NewPlayer]
  /\ matches = <<>>
  /\ purgeImmunity = {}
  /\ dailyImmunity = <<>>
  /\ tasks = EmptyBag
  /\ reply = "off"

NextTwo ==
  \/ \E u \in Hosts, m \in MaxPlayersArgs : CreateLobby(u, m)
  \/ \E c \in TwoCodes, u \in Players : JoinLobby(c, u)
  \/ \E c \in TwoCodes, u \in Hosts, v \in Players : KickPlayer(c, u, v)
  \/ \E c \in TwoCodes : DeleteLobbyResume(c)
  \/ \E c \in TwoCodes, u \in Hosts : CloseLobby(c, u)

SpecTwo == InitTwo /\ [][NextTwo]_vars

\* a lobby created with maxPlayers = 2, which createLobby takes from the request
\* as it is
SmallCapacities == {2}

NextSmall ==
  \/ \E u \in Creators, m \in SmallCapacities : CreateLobby(u, m)
  \/ \E c \in Codes, u \in DraftPlayers : JoinLobby(c, u)
  \/ \E c \in Codes, u \in Issuers : StartCaptainSelect(c, u)
  \/ \E o \in Oids, e \in SUBSET Players : RunPurge(o, e)
  \/ \E o \in Oids : PurgeComplete(o)
  \/ ImmunityExpires
  \/ \E c \in Codes, u \in Issuers, v \in Players : SelectCaptain(c, u, v)
  \/ \E c \in Codes, u, v \in Players : DraftPick(c, u, v)
  \/ \E o \in Oids : StartPlayingResume(o)

SpecSmall == Init /\ [][NextSmall]_vars

\* ============================================================ properties
Live == {o \in Oids : heap[o].phase \notin {"none", "gone"}}

Registered == {lobbies[c] : c \in DOMAIN lobbies} \ {0}

Members(l) == Range(l.teams.team1) \cup Range(l.teams.team2)

NoDuplicates(q) == \A i, j \in 1..Len(q) : q[i] = q[j] => i = j

\* C1: once finishMatch has run for a lobby (addScore reaching 2, or
\* declareWinner), every later addScore, declareWinner and declareDraw on that
\* lobby is turned away: it changes no player record and nothing of the lobby.
C1_FinishedIsFinal ==
  [][\A c \in Codes, u \in Issuers, t \in TeamArgs :
       ( /\ lobbies[c] # 0
         /\ heap[lobbies[c]].done
         /\ (AddScore(c, u, t) \/ DeclareWinner(c, u, t) \/ DeclareDraw(c, u)) )
       => (db' = db /\ heap' = heap)]_vars

\* C2: of the result commands issued against one playing lobby, from the socket
\* and from Discord, at most one takes effect: no lobby has two rating updates
\* or draw records for one phase of play.
C2_OneResultPerMatch == \A o \in Oids : heap[o].applied <= 1

\* C3: a lobby changes its phase only along waiting -> captain-select,
\* waiting -> purging, purging -> captain-select, captain-select -> drafting,
\* drafting -> playing, playing -> finished, or back to waiting by a reset.
AllowedPhaseChanges ==
  { <<"none", "waiting">>, <<"waiting", "captain-select">>, <<"waiting", "purging">>,
    <<"purging", "captain-select">>, <<"captain-select", "drafting">>,
    <<"drafting", "playing">>, <<"playing", "finished">> }

C3_PhaseOrder ==
  [][\A o \in Oids :
       \/ heap'[o].phase = heap[o].phase
       \/ heap'[o].phase \in {"waiting", "gone"}
       \/ <<heap[o].phase, heap'[o].phase>> \in AllowedPhaseChanges]_vars

\* C4: in a lobby whose capacity is even and at least 4, neither team ever has
\* more than capacity / 2 members.
C4_TeamSize ==
  \A o \in Live :
    (heap[o].maxPlayers >= 4 /\ heap[o].maxPlayers % 2 = 0)
    => /\ 2 * Len(heap[o].teams.team1) <= heap[o].maxPlayers
       /\ 2 * Len(heap[o].teams.team2) <= heap[o].maxPlayers

Removed(o) == heap[o].players \ heap'[o].players

\* C6: a purge that starts with more players than the capacity removes exactly
\* the excess and leaves capacity players.
C6_PurgeToCapacity ==
  [][\A o \in Oids :
       (RunPurge(o, Removed(o)) /\ Cardinality(heap[o].players) > heap[o].maxPlayers)
       => Cardinality(heap'[o].players) = heap[o].maxPlayers]_vars

\* C7: the host is never among the players a purge eliminates: the host stays
\* on the roster, keeps the session and is not recorded as eliminated.
C7_HostNotEliminated ==
  [][\A o \in Oids :
       RunPurge(o, Removed(o))
       => /\ heap[o].host \notin Removed(o)
          /\ heap[o].host \notin heap'[o].purgeData.eliminated
          /\ sessions'[heap[o].host] = sessions[heap[o].host]]_vars

\* a purge has eliminated players of a lobby whose host is on the roster
C7_Witness ==
  \E o \in Live :
    /\ heap[o].purgeData.eliminated # {}
    /\ heap[o].host \in heap[o].players
    /\ purgeImmunity # {}

\* C8: in a registered lobby every captain and every team member is on the roster.
C8_TeamsWithinRoster ==
  \A o \in Registered :
    Range(heap[o].captains) \cup Members(heap[o]) \subseteq heap[o].players

\* C9: no player is on both teams, and no player is twice on a team.
C9_TeamsDisjoint ==
  \A o \in Live :
    /\ Range(heap[o].teams.team1) \cap Range(heap[o].teams.team2) = {}
    /\ NoDuplicates(heap[o].teams.team1)
    /\ NoDuplicates(heap[o].teams.team2)

\* C10: a lobby has at most two captains, they are distinct, and while it is
\* drafting or playing captain i is the first member of team i.
C10_Captains ==
  \A o \in Live :
    /\ Len(heap[o].captains) <= 2
    /\ NoDuplicates(heap[o].captains)
    /\ heap[o].phase \in {"drafting", "playing"}
       => /\ Len(heap[o].captains) = 2
          /\ heap[o].teams.team1 # <<>> /\ heap[o].teams.team1[1] = heap[o].captains[1]
          /\ heap[o].teams.team2 # <<>> /\ heap[o].teams.team2[1] = heap[o].captains[2]

\* the callbacks and continuations that end in deleteLobby for lobby object o
\* registered under code c
Destruction(o, c) ==
  {t \in BagToSet(tasks) :
     \/ t.kind \in {"finish", "destroy"} /\ t.o = o
     \/ t.kind = "delete" /\ t.code = c}

\* C11: a lobby that is finished and in the registry is on its way out of the
\* registry: its destruction timer, or the continuation that sets the timer or
\* removes the entry, is pending.
C11_FinishedIsDestroyed ==
  \A c \in Codes :
    (lobbies[c] # 0 /\ heap[lobbies[c]].phase = "finished")
    => Destruction(lobbies[c], c) # {}

\* C12: a timer callback (purge, purge completion, destruction) that runs for a
\* lobby object that is no longer in the registry changes nothing outside that
\* object: not the registry, the sessions, the records or the immunities.
C12_StaleCallbacks ==
  [][\A o \in Oids :
       ( /\ o \notin Registered
         /\ (RunPurge(o, Removed(o)) \/ PurgeComplete(o) \/ DestroyLobby(o)) )
       => UNCHANGED <<lobbies, sessions, db, matches, purgeImmunity, dailyImmunity>>]_vars

\* C13: a lobby in the registry is never replaced by another one under its
\* code: an entry changes only by being removed.
C13_NoReplacement ==
  [][\A c \in Codes : lobbies[c] # 0 => lobbies'[c] \in {lobbies[c], 0}]_vars

\* C14: a step that changes player records is one match result with one delta
\* between 20 and 30: every winner gains delta, every loser loses 50 - delta
\* but not below 0, and no other record changes.
C14_RatingUpdate ==
  [][db' # db =>
       \E delta \in 20..30 : \A p \in Players :
         /\ db'[p].wins > db[p].wins => db'[p].elo = db[p].elo + delta
         /\ db'[p].losses > db[p].losses
              => db'[p].elo = Max2(0, db[p].elo - (BASE_ELO - delta))
         /\ (db'[p].wins = db[p].wins /\ db'[p].losses = db[p].losses) => db'[p] = db[p]]_vars

\* the team averages of w and l are equal
SameAverage(w, l) == TeamTotal(db, w) * Len(l) = TeamTotal(db, l) * Len(w)

\* C15: for every pair of teams, whatever their ratings, calculateEloChange is
\* between 20 and 30, and for equal averages it is 30, a loss of 20.
C15_EloChangeBand ==
  \A w, l \in RatingTeams :
    LET c == calculateEloChange(TeamTotal(db, w), Len(w), TeamTotal(db, l), Len(l))
    IN /\ c \in 20..30
       /\ SameAverage(w, l)
            => /\ rawEloChange(TeamTotal(db, w), Len(w), TeamTotal(db, l), Len(l)) = 33
               /\ c = 30
               /\ BASE_ELO - c = 20

\* a result has been processed, and among the teams are a pair whose rounded
\* value is 50, a pair whose rounded value is 17 and a pair of equal averages
\* whose rounded value is 33
C15_Witness ==
  /\ \E p \in Players : db[p].gamesPlayed > 0
  /\ \E w, l \in RatingTeams :
       rawEloChange(TeamTotal(db, w), Len(w), TeamTotal(db, l), Len(l)) = 50
  /\ \E w, l \in RatingTeams :
       rawEloChange(TeamTotal(db, w), Len(w), TeamTotal(db, l), Len(l)) = 17
  /\ \E w, l \in RatingTeams :
       /\ Range(w) \cap Range(l) = {}
       /\ SameAverage(w, l)
       /\ rawEloChange(TeamTotal(db, w), Len(w), TeamTotal(db, l), Len(l)) = 33

C17_RecordPerResult ==
  [][db' # db => (Len(matches') = Len(matches) + 1 /\ Tail(matches') = matches)]_vars

\* C18: for every player record gamesPlayed = wins + losses.
C18_GamesPlayed ==
  \A p \in Players : db[p].gamesPlayed = db[p].wins + db[p].losses

\* The error messages of draftPick.
PickErrors == {"Lobby not found", "Not in drafting phase", "Not your turn to pick",
               "Player not found", "Player already picked"}

\* The pick the checks of draftPick are written for: issued by the first member
\* of the team on turn, for a roster member who is no captain and on no team.
ValidPick(c, u, v) ==
  LET o == lobbies[c]
      l == heap[o]
  IN /\ o # 0
     /\ l.phase = "drafting"
     /\ l.currentTurn \in TeamNames
     /\ l.teams[l.currentTurn] # <<>>
     /\ u = l.teams[l.currentTurn][1]
     /\ v \in l.players
     /\ v \notin Range(l.captains) \cup Range(l.teams.team1) \cup Range(l.teams.team2)

\* C19: a draftPick is accepted only from the first member of the team on turn
\* and for a roster member who is neither a captain nor on a team; every other
\* draftPick is answered with an error and leaves the teams, currentTurn,
\* picksLeft and the phase as they were.
C19_PickChecks ==
  [][\A c \in Codes, u, v \in Players :
       (DraftPick(c, u, v) /\ ~ValidPick(c, u, v))
         => /\ reply' \in PickErrors
            /\ lobbies' = lobbies
            /\ \A o \in Oids :
                 /\ heap'[o].teams = heap[o].teams
                 /\ heap'[o].currentTurn = heap[o].currentTurn
                 /\ heap'[o].picksLeft = heap[o].picksLeft
                 /\ heap'[o].phase = heap[o].phase]_vars

\* min(2, capacity/2 - size of the team next on turn, roster size - total picked)
\* after the pick that draftPick is about to add to the team on turn.
Allotment(l) ==
  Min3(2, (l.maxPlayers \div 2) - Len(l.teams[OtherTeam(l.currentTurn)]),
       Cardinality(l.players) - (Len(l.teams.team1) + Len(l.teams.team2) + 1))

\* The teams are not full after the pick that draftPick is about to add.
NotFull(l) == Len(l.teams.team1) + Len(l.teams.team2) + 1 < l.maxPlayers

C21_SelectCaptain ==
  [][\A c \in Codes, u \in Issuers, v \in Players :
       (/\ lobbies[c] # 0
        /\ EarlySelectCaptain(c, u, v)
        /\ heap'[lobbies[c]].captains # heap[lobbies[c]].captains)
         => LET l == heap[lobbies[c]]
                n == heap'[lobbies[c]]
            IN IF l.captains = <<>>
               THEN n.teams.team1 = <<v>> /\ n.phase = "captain-select"
               ELSE /\ n.teams.team2 = <<v>>
                    /\ n.teams.team1 = l.teams.team1
                    /\ n.phase = "drafting"
                    /\ n.currentTurn = "team1"
                    /\ n.picksLeft = 1]_vars

\* How often player p occurs on the two teams of lobby l.
Seats(l, p) ==
  Cardinality({i \in 1..Len(l.teams.team1) : l.teams.team1[i] = p})
    + Cardinality({i \in 1..Len(l.teams.team2) : l.teams.team2[i] = p})

\* C22: a draft that started with as many players on the roster as the
\* capacity ends in playing with capacity/2 members on each team and every
\* roster member on exactly one team.
C22_DraftFillsTeams ==
  \A o \in Registered :
    (heap[o].phase = "playing" /\ Cardinality(heap[o].players) = heap[o].maxPlayers)
      => /\ Len(heap[o].teams.team1) = heap[o].maxPlayers \div 2
         /\ Len(heap[o].teams.team2) = heap[o].maxPlayers \div 2
         /\ \A p \in heap[o].players : Seats(heap[o], p) = 1

C25_PurgeEnds ==
  \A o \in Oids :
    (heap[o].phase = "purging")
      ~> (heap[o].phase \in {"captain-select", "gone"} \/ o \notin Registered)

\* A purge that could not remove the whole excess has ended in captain-select.
C25_Witness ==
  \E o \in Registered :
    /\ heap[o].phase = "captain-select"
    /\ heap[o].starts = 1
    /\ ~heap[o].purgeData.present
    /\ Cardinality(heap[o].players) > heap[o].maxPlayers

HostErrors ==
  { "Only the host can start the game", "Only the host can select captains",
    "Only the host can remove captains", "Only the host can add scores",
    "Only the host can declare the winner", "Only the host can declare a draw",
    "Only the host can reset the lobby", "Only host can kick players",
    "Only host can close lobby", "Match not in progress" }

\* One of the host-only commands of the socket, issued by u for the lobby c.
HostCommand(c, u) ==
  \/ StartCaptainSelect(c, u)
  \/ \E v \in Players : SelectCaptain(c, u, v)
  \/ \E v \in Players : RemoveCaptain(c, u, v)
  \/ \E t \in TeamArgs : AddScore(c, u, t)
  \/ \E t \in TeamArgs : DeclareWinner(c, u, t)
  \/ DeclareDraw(c, u)
  \/ ResetLobby(c, u)
  \/ \E v \in Players : KickPlayer(c, u, v)
  \/ CloseLobby(c, u)

C28_LeaveLobby ==
  [][\A a \in CodeArgs, u \in Players :
       (getLobby(a) # 0 /\ LeaveLobby(a, u))
         => LET o == getLobby(a)
                l == heap[o]
            IN IF l.phase # "waiting"
               THEN UNCHANGED <<lobbies, heap, sessions, db, matches, tasks>>
               ELSE IF u = l.host
               THEN \/ /\ lobbies'[l.id] = 0
                       /\ sessions' = clearLobbySession(sessions, l.id)
                    \/ BagIn(Task("delete", 0, l.id, <<>>, <<>>, ""), tasks')
               ELSE /\ lobbies' = lobbies
                    /\ heap'[o].players = l.players \ {u}
                    /\ sessions' = [sessions EXCEPT ![u] = "none"]]_vars

\* C29: kickPlayer naming an identity that is not on the lobby's roster
\* changes nothing: the roster stays as it is and no session entry is cleared,
\* also not a session of that identity that points at another lobby.
C29_KickOutsider ==
  [][\A c \in Codes, u \in Issuers, v \in Players :
       (lobbies[c] # 0 /\ v \notin heap[lobbies[c]].players /\ KickPlayer(c, u, v))
         => /\ heap'[lobbies[c]].players = heap[lobbies[c]].players
            /\ sessions' = sessions]_vars

\* C30: addScore and declareWinner with a team argument that is neither team1
\* nor team2 change neither the score, the phase nor any player's rating, and
\* declare no winner.
C30_TeamArgument ==
  [][\A c \in Codes, u \in Issuers, t \in TeamArgs \ TeamNames :
       (lobbies[c] # 0 /\ (AddScore(c, u, t) \/ DeclareWinner(c, u, t)))
         => /\ heap'[lobbies[c]].score = heap[lobbies[c]].score
            /\ heap'[lobbies[c]].phase = heap[lobbies[c]].phase
            /\ heap'[lobbies[c]].eloResults = heap[lobbies[c]].eloResults
            /\ db' = db]_vars

\* C31: every command that is not applied is answered with an error that
\* carries a reason; leaveLobby, kickPlayer and closeLobby for a code with no
\* registered lobby do not return silently.
C31_NoSilentRejection == reply # "silent"

\* The position of a tier in Tiers.
TierIndex(t) == CHOOSE i \in 1..Len(Tiers) : Tiers[i] = t

\* C32: getRank is total and monotone over the ratings from 0: it gives the
\* highest tier whose threshold the rating meets, the lowest tier for rating
\* 0, and a higher rating never gives a lower tier.
C32_RankMonotone ==
  \A p, q \in Players :
    LET e == db[p].elo
        r == getRank(e)
    IN /\ r \in Range(Tiers)
       /\ RANKS[r] <= e
       /\ \A i \in 1..Len(Tiers) : RANKS[Tiers[i]] <= e => i <= TierIndex(r)
       /\ e = 0 => r = Tiers[1]
       /\ e <= db[q].elo => TierIndex(r) <= TierIndex(getRank(db[q].elo))

\* Ratings in the lowest and in the highest tier, one of them 0, after a match.
C32_Witness ==
  \E p, q \in Players :
    /\ db[p].elo = 0
    /\ getRank(db[q].elo) = "Netherite"
    /\ db[q].gamesPlayed > 0

\* C33: a timer callback that fires after its lobby was reset, or has otherwise
\* left the phase that set the timer, is ignored: a pending purge neither
\* eliminates players nor forces captain-select, and the destruction timer of
\* finishMatch does not remove a lobby the host has reset for a rematch.
C33_LateCallbacks ==
  [][\A o \in Oids :
       /\ (heap[o].phase # "purging" /\ (RunPurge(o, Removed(o)) \/ PurgeComplete(o)))
            => /\ heap'[o].players = heap[o].players
               /\ heap'[o].phase = heap[o].phase
       /\ (heap[o].phase # "finished" /\ DestroyLobby(o))
            => /\ lobbies' = lobbies
               /\ sessions' = sessions
               /\ tasks' = tasks (-) SetToBag({Timer("destroy", o)})]_vars

\* C34: once an accepted draftPick has completed the draft and startPlaying is
\* awaiting its voice-channel operations (the phase still reads drafting), no
\* further draftPick is accepted: it adds nobody to a team and starts no second
\* startPlaying.
C34_DraftEndsOnce ==
  [][\A o \in Oids, c \in Codes, u, v \in Players :
       (/\ BagIn(Timer("startPlaying", o), tasks)
        /\ lobbies[c] = o
        /\ DraftPick(c, u, v))
       => /\ heap'[o].teams = heap[o].teams
          /\ tasks' = tasks]_vars

\* C35: every member of the roster of a registered lobby has a session entry
\* that holds that lobby's code.
C35_RosterHasSession ==
  \A c \in DOMAIN lobbies :
    lobbies[c] # 0 => \A p \in heap[lobbies[c]].players : sessions[p] = c

\* C36: no identity is in the roster of two registered lobbies at the same time.
C36_OneLobbyEach ==
  \A c, d \in DOMAIN lobbies :
    (c # d /\ lobbies[c] # 0 /\ lobbies[d] # 0)
      => heap[lobbies[c]].players \cap heap[lobbies[d]].players = {}

\* C37: the host of a registered lobby is a member of its roster: kickPlayer,
\* leaveLobby and the purge never remove the host while the lobby stays
\* registered.
C37_HostOnRoster ==
  \A c \in DOMAIN lobbies :
    lobbies[c] # 0 => heap[lobbies[c]].host \in heap[lobbies[c]].players

\* a registered lobby that a purge has reduced, that was reset to waiting and
\* that a member has left or was kicked from since
C37_Witness ==
  \E o \in Registered :
    /\ heap[o].phase = "waiting"
    /\ heap[o].resets >= 1
    /\ purgeImmunity # {}
    /\ Cardinality(heap[o].players) < MIN_PLAYERS
    /\ heap[o].host \in heap[o].players

\* C38: whenever a registered lobby is in drafting and no startPlaying of it is
\* suspended, picksLeft is 1 or 2, the team on turn has fewer than capacity/2
\* members and some roster member is on no team.
C38_ValidPickExists ==
  \A o \in Registered :
    (heap[o].phase = "drafting" /\ ~BagIn(Timer("startPlaying", o), tasks))
    => /\ heap[o].picksLeft \in {1, 2}
       /\ heap[o].currentTurn \in TeamNames
       /\ 2 * Len(heap[o].teams[heap[o].currentTurn]) < heap[o].maxPlayers
       /\ heap[o].players \ (Range(heap[o].teams.team1) \cup Range(heap[o].teams.team2)) # {}

\* C39: a closeLobby by the host (or the host's leaveLobby in waiting), with the
\* code in any letter case that getLobby resolves, removes the lobby from the
\* registry and clears its sessions: after 'lobbyClosed' was announced the
\* lobby is unregistered and no session holds its code, or its removal is
\* pending behind the await of deleteLobby.
C39_ClosedIsRemoved ==
  reply = "lobbyClosed"
  => \A c \in DOMAIN lobbies :
       \/ lobbies[c] = 0 /\ \A p \in Players : sessions[p] # c
       \/ BagIn(Task("delete", 0, c, <<>>, <<>>, ""), tasks)

\* C40: in every per-player tuple of the results of processMatchResult,
\* newElo = oldElo + change, also for a loser whose rating is floored at 0.
C40_ResultTuples ==
  [][\A w, l \in RatingTeams :
       ProcessMatchResult(w, l)
       => LET r == matchResults(db, w, l) IN
          \A t \in Range(r.winners) \cup Range(r.losers) :
            /\ t.newElo = db'[t.odiscordId].elo
            /\ t.newElo = t.oldElo + t.change]_vars

============================================================================
